---- MODULE Spec2Model ----
(***************************************************************************)
(* A model of zoneparser (src/zoneparser/__init__.py): the lexer           *)
(* (Tokeniser._tokens_from_file), the token normaliser                     *)
(* (Tokeniser._remove_extra_tokens), the record grouper                    *)
(* (Tokeniser.tokenise) and the record analyser (ZoneAnalyser.analyze),    *)
(* chained as parse_zonefile chains them (specification Spec); and of      *)
(* merge_records with PDNSResourceRecord.verify_and_prune_records          *)
(* (src/zone2pdns.py), which merges the rrsets built from the parsed       *)
(* records (specification MergeSpec).                                      *)
(*                                                                         *)
(* Text is modelled as a sequence of one-character strings, so that the    *)
(* character-level rules (escapes, comments, trailing dots, the TTL        *)
(* pattern, the order of sort keys) are computed and not assumed.          *)
(***************************************************************************)
EXTENDS Naturals, Sequences, FiniteSets

VARIABLES
    default_zone,    \* parse_zonefile's zone argument (text)
    zonefile,        \* parse_zonefile's zonefile argument: the physical lines
    line_no,         \* the number of lines _tokens_from_file has taken from zonefile
    eof,             \* the zonefile iterator is exhausted and tokenise has returned
    pending_exc,     \* exception raised inside _tokens_from_file, not yet propagated
    tokens,          \* raw tokens yielded by _tokens_from_file, not yet normalised
    prev_token,      \* _remove_extra_tokens: prev_token
    reduced_tokens,  \* tokens yielded by _remove_extra_tokens, not yet grouped
    fed,             \* every reduced token tokenise has consumed, in order
    current,         \* tokenise: current
    in_parens,       \* tokenise: in_parens
    yielded,         \* every group tokenise has yielded, in order
    token_groups,    \* groups yielded by tokenise, not yet analysed
    current_ttl,     \* analyze: current_ttl
    current_origin,  \* analyze: current_origin
    last_domain,     \* analyze: last_domain
    out,             \* the items parse_zonefile's generator has yielded, in order
    log,             \* per analysed group: the group, the context before, the items
    status,          \* "running", "done" (StopIteration) or "raised"
    exc,             \* the exception type that ended the parse, or "none"
    records,         \* merge_records's records argument: a list of rrsets
    sorted_rrs,      \* merge_records: sorted_rrs
    merged_rrsets,   \* merge_records: merged_rrsets
    merge_i,         \* merge_records: i, the index (0-based) of the next rrset taken
    pruned,          \* per call of verify_and_prune_records: the rrset before and after
    merge_status     \* "idle", "called", "merging", "returned" or "raised"

\* The state of parse_zonefile.
parser_vars == <<default_zone, zonefile, line_no, eof, pending_exc, tokens, prev_token,
                 reduced_tokens, fed, current, in_parens, yielded, token_groups,
                 current_ttl, current_origin, last_domain, out, log, status, exc>>

\* The state of merge_records.
merge_vars == <<records, sorted_rrs, merged_rrsets, merge_i, pruned, merge_status>>

vars == <<parser_vars, merge_vars>>

\* ------------------------------------------------------------------ bounds

\* The number of physical lines of a zone file.
MaxLines == 2

\* ------------------------------------------------------------------ text

\* " ".join(parts)
RECURSIVE join(_)
join(parts) ==
    IF parts = <<>> THEN <<>>
    ELSE IF Len(parts) = 1 THEN parts[1]
    ELSE parts[1] \o <<" ">> \o join(Tail(parts))

\* The characters str.strip() removes.
Whitespace == {" ", "\t", "\n", "\r", "\f"}

RECURSIVE lstrip(_)
lstrip(s) == IF s # <<>> /\ Head(s) \in Whitespace THEN lstrip(Tail(s)) ELSE s

RECURSIVE rstrip(_)
rstrip(s) ==
    IF s # <<>> /\ s[Len(s)] \in Whitespace THEN rstrip(SubSeq(s, 1, Len(s) - 1)) ELSE s

strip(s) == rstrip(lstrip(s))

endswith_dot(s) == s # <<>> /\ s[Len(s)] = "."

startswith_dot(s) == s # <<>> /\ s[1] = "."

\* value.replace("\\;", ";"): left to right, non-overlapping.
RECURSIVE replace_escaped_semicolon(_)
replace_escaped_semicolon(s) ==
    IF Len(s) < 2 THEN s
    ELSE IF s[1] = "\\" /\ s[2] = ";"
         THEN <<";">> \o replace_escaped_semicolon(SubSeq(s, 3, Len(s)))
         ELSE <<s[1]>> \o replace_escaped_semicolon(Tail(s))

\* ---------------------------------------------------------------- tokens

None == [type |-> "NoneType"]

DataToken(v) == [type |-> "DataToken", value |-> v]

CommentToken(v) == [type |-> "CommentToken", value |-> v]

EOLToken == [type |-> "EOLToken"]

OpenParenthesisToken == [type |-> "OpenParenthesisToken"]

CloseParenthesisToken == [type |-> "CloseParenthesisToken"]

SpaceToken == [type |-> "SpaceToken"]

\* A Python str held where a token may also be held (entry_ttl).
Str(v) == [type |-> "str", value |-> v]

\* The objects that have a .value attribute.
has_value(x) == x.type \in {"DataToken", "CommentToken", "str"}

\* bool(x): None is false, a str is true when non-empty, and a token is always
\* true, since no token class defines __bool__ or __len__.
truthy(x) ==
    IF x.type = "NoneType" THEN FALSE
    ELSE IF x.type = "str" THEN x.value # <<>>
    ELSE TRUE

\* DataToken.__eq__(self, other) against a str; any other token compares by
\* identity, which a str never has.
token_eq(tok, s) == tok.type = "DataToken" /\ tok.value = s

is_special(tok) == tok.value # <<>> /\ tok.value[1] = "$"

\* ----------------------------------------------------------------- lexer

char_to_token(char) ==
    IF char \in {" ", "\t"} THEN SpaceToken
    ELSE IF char = ";" THEN CommentToken(<<>>)
    ELSE IF char \in {"\r", "\n"} THEN EOLToken
    ELSE IF char = "(" THEN OpenParenthesisToken
    ELSE IF char = ")" THEN CloseParenthesisToken
    ELSE DataToken(<<char>>)

\* escape_char with a backslash outside a DataToken passed over in silence.
escape_char_IgnoresBareBackslash(line, i, current_token) ==
    IF current_token.type = "DataToken"
    THEN IF i + 1 > Len(line)
         THEN [exc |-> "IndexError", current_token |-> current_token]
         ELSE [exc |-> "none",
               current_token |-> DataToken(current_token.value \o <<line[i], line[i + 1]>>)]
    ELSE [exc |-> "none", current_token |-> current_token]

\* Lines 129-135: a backslash is read at position i (1-based). The exception it
\* raises ("none" if none) and the token it leaves open: only an open DataToken
\* takes the backslash, with the character after it.
escape_char(line, i, current_token) ==
    IF current_token.type = "DataToken"
    THEN IF i + 1 > Len(line)
         THEN [exc |-> "IndexError", current_token |-> current_token]
         ELSE [exc |-> "none",
               current_token |-> DataToken(current_token.value \o <<line[i], line[i + 1]>>)]
    ELSE [exc |-> "ValueError", current_token |-> current_token]

\* One iteration of the outer loop of _tokens_from_file: the tokens the line
\* yields, and the exception that ends it early ("none" when it runs to its end).
\* i is the 1-based position of the character being read, acc the tokens yielded.
RECURSIVE tokens_from_line(_, _, _, _, _)
tokens_from_line(line, i, current_token, escaped_char, acc) ==
    IF i > Len(line)
    THEN [tokens |-> acc
                     \o (IF truthy(current_token) THEN <<current_token>> ELSE <<>>)
                     \o <<EOLToken>>,
          exc |-> "none"]
    ELSE LET c == line[i] IN
      IF c = "\\"
      THEN LET e == escape_char(line, i, current_token)
           IN IF e.exc # "none"
              THEN [tokens |-> acc, exc |-> e.exc]
              ELSE tokens_from_line(line, i + 1, e.current_token, TRUE, acc)
      ELSE IF escaped_char
      THEN tokens_from_line(line, i + 1, current_token, FALSE, acc)
      ELSE LET c_token == char_to_token(c)
               is_data == c_token.type = "DataToken"
               acc1 == IF truthy(current_token) /\ ~is_data
                       THEN Append(acc, current_token) ELSE acc
               current1 == IF truthy(current_token)
                           THEN IF is_data
                                THEN DataToken(current_token.value \o <<c>>)
                                ELSE None
                           ELSE None
           IN IF is_data
              THEN tokens_from_line(line, i + 1,
                      IF truthy(current1) THEN current1 ELSE c_token,
                      FALSE, acc1)
              ELSE IF c_token.type = "CommentToken"
              THEN [tokens |-> acc1
                               \o <<CommentToken(strip(SubSeq(line, i + 1, Len(line))))>>
                               \o <<EOLToken>>,
                    exc |-> "none"]
              ELSE tokens_from_line(line, i + 1, None, FALSE, Append(acc1, c_token))

\* ------------------------------------------------------------ normaliser

\* do_yield of _remove_extra_tokens for one token.
remove_extra_tokens(token, prev) ==
    IF token.type = "DataToken" THEN TRUE
    ELSE IF prev.type = "SpaceToken" /\ token.type = "SpaceToken" THEN FALSE
    ELSE IF prev.type = "EOLToken" /\ token.type = "EOLToken" THEN FALSE
    ELSE IF token.type = "EOLToken" /\ prev = None THEN FALSE
    ELSE TRUE

\* --------------------------------------------------------------- grouper

\* tokenise with an EndOfLine closing the group inside parentheses too.
tokenise_ClosesInsideParens(token, cur, parens) ==
    IF token.type = "SpaceToken"
    THEN [current |-> IF cur = <<>> THEN <<token>> ELSE cur,
          in_parens |-> parens, yielded |-> <<>>]
    ELSE IF token.type = "OpenParenthesisToken"
    THEN [current |-> cur, in_parens |-> TRUE, yielded |-> <<>>]
    ELSE IF token.type = "CloseParenthesisToken"
    THEN [current |-> cur, in_parens |-> FALSE, yielded |-> <<>>]
    ELSE IF token.type = "EOLToken" /\ cur # <<>>
    THEN IF ~(Len(cur) = 1 /\ cur[1].type = "SpaceToken")
         THEN [current |-> <<>>, in_parens |-> parens, yielded |-> <<cur>>]
         ELSE [current |-> cur, in_parens |-> parens, yielded |-> <<>>]
    ELSE [current |-> Append(cur, token), in_parens |-> parens, yielded |-> <<>>]

\* One iteration of the loop of tokenise: the new current, the new in_parens and
\* the groups yielded (none or one).
tokenise(token, cur, parens) ==
    IF token.type = "SpaceToken"
    THEN [current |-> IF cur = <<>> THEN <<token>> ELSE cur,
          in_parens |-> parens, yielded |-> <<>>]
    ELSE IF token.type = "OpenParenthesisToken"
    THEN [current |-> cur, in_parens |-> TRUE, yielded |-> <<>>]
    ELSE IF token.type = "CloseParenthesisToken"
    THEN [current |-> cur, in_parens |-> FALSE, yielded |-> <<>>]
    ELSE IF token.type = "EOLToken" /\ cur # <<>>
    THEN IF ~parens /\ ~(Len(cur) = 1 /\ cur[1].type = "SpaceToken")
         THEN [current |-> <<>>, in_parens |-> parens, yielded |-> <<cur>>]
         ELSE [current |-> cur, in_parens |-> parens, yielded |-> <<>>]
    ELSE [current |-> Append(cur, token), in_parens |-> parens, yielded |-> <<>>]

\* -------------------------------------------------------------- analyser

Digit == {"0", "1", "2", "3", "4", "5", "6", "7", "8", "9"}

Letter ==
    {"a", "b", "c", "d", "e", "f", "g", "h", "i", "j", "k", "l", "m",
     "n", "o", "p", "q", "r", "s", "t", "u", "v", "w", "x", "y", "z",
     "A", "B", "C", "D", "E", "F", "G", "H", "I", "J", "K", "L", "M",
     "N", "O", "P", "Q", "R", "S", "T", "U", "V", "W", "X", "Y", "Z"}

\* \w
WordChar == Letter \cup Digit \cup {"_"}

\* \d+\w? over the whole of v
ttl_pattern(v) ==
    /\ Len(v) >= 1
    /\ \A i \in 1..(Len(v) - 1) : v[i] \in Digit
    /\ \/ v[Len(v)] \in Digit
       \/ Len(v) >= 2 /\ v[Len(v)] \in WordChar

\* re.match(r"^\d+\w?$", v) is not None; $ also matches before a final newline.
is_ttl(v) ==
    \/ ttl_pattern(v)
    \/ Len(v) >= 1 /\ v[Len(v)] = "\n" /\ ttl_pattern(SubSeq(v, 1, Len(v) - 1))

is_namespace(v) == v \in {<<"I","N">>, <<"C","H">>, <<"H","S">>}

RecordTypes == {
    <<"A">>, <<"A","A","A","A">>, <<"A","F","S","D","B">>, <<"A","P","L">>,
    <<"C","E","R","T">>, <<"C","N","A","M","E">>, <<"D","H","C","I","D">>, <<"D","L","V">>,
    <<"D","N","A","M","E">>, <<"D","N","S","K","E","Y">>, <<"D","S">>, <<"H","I","P">>,
    <<"I","P","S","E","C","K","E","Y">>, <<"K","E","Y">>, <<"K","X">>, <<"L","O","C">>,
    <<"M","X">>, <<"N","A","P","T","R">>, <<"N","S">>, <<"N","S","E","C">>,
    <<"N","S","E","C","3">>, <<"N","S","E","C","3","P","A","R","A","M">>, <<"P","T","R">>,
    <<"R","R","S","I","G">>, <<"R","P">>, <<"S","I","G">>, <<"S","O","A">>, <<"S","P","F">>,
    <<"S","R","V">>, <<"S","S","H","F","P">>, <<"T","A">>, <<"T","K","E","Y">>,
    <<"T","L","S","A">>, <<"T","S","I","G">>, <<"T","X","T">>}

is_type(v) == v \in RecordTypes

DNSRecord(domain, type, value, ttl, record_class, comment) ==
    [kind |-> "DNSRecord", domain |-> domain, type |-> type,
     value |-> replace_escaped_semicolon(value), ttl |-> ttl,
     record_class |-> record_class, comment |-> comment]

\* The error text is kept as its format string; the one formatted message
\* ("Invalid special %s" % group[0]) carries str(group[0]) beside it.
DNSRecordError(group, error) ==
    [kind |-> "DNSRecordError", group |-> group, error |-> error,
     arg |-> IF error = "Invalid special %s" THEN group[1].value ELSE <<>>]

\* What one iteration of the loop of analyze leaves behind: the items yielded
\* (none or one), the context, and the exception raised ("none" if none).
Step(items, ttl, origin, last, e) ==
    [items |-> items, current_ttl |-> ttl, current_origin |-> origin,
     last_domain |-> last, exc |-> e]

\* special_entry with "$INCLUDE" passed over in silence.
special_entry_SilentInclude(group, ttl, origin, last) ==
    IF token_eq(group[1], <<"$","O","R","I","G","I","N">>)
    THEN IF Len(group) = 2
         THEN Step(<<>>, ttl, group[2], last, "none")
         ELSE Step(<<DNSRecordError(group, "Invalid ORIGIN entry")>>,
                   ttl, origin, last, "none")
    ELSE IF token_eq(group[1], <<"$","T","T","L">>)
    THEN IF Len(group) = 2
         THEN Step(<<>>, group[2], origin, last, "none")
         ELSE Step(<<DNSRecordError(group, "Invalid TTL entry")>>,
                   ttl, origin, last, "none")
    ELSE IF token_eq(group[1], <<"$","I","N","C","L","U","D","E">>)
    THEN Step(<<>>, ttl, origin, last, "none")
    ELSE Step(<<DNSRecordError(group, "Invalid special %s")>>,
              ttl, origin, last, "none")

\* special_entry with "$TTL" storing the keyword token in place of its argument.
special_entry_StoresKeyword(group, ttl, origin, last) ==
    IF token_eq(group[1], <<"$","O","R","I","G","I","N">>)
    THEN IF Len(group) = 2
         THEN Step(<<>>, ttl, group[2], last, "none")
         ELSE Step(<<DNSRecordError(group, "Invalid ORIGIN entry")>>,
                   ttl, origin, last, "none")
    ELSE IF token_eq(group[1], <<"$","T","T","L">>)
    THEN IF Len(group) = 2
         THEN Step(<<>>, group[1], origin, last, "none")
         ELSE Step(<<DNSRecordError(group, "Invalid TTL entry")>>,
                   ttl, origin, last, "none")
    ELSE IF token_eq(group[1], <<"$","I","N","C","L","U","D","E">>)
    THEN Step(<<DNSRecordError(group, "$INCLUDE is unsupported")>>,
              ttl, origin, last, "none")
    ELSE Step(<<DNSRecordError(group, "Invalid special %s")>>,
              ttl, origin, last, "none")

\* Lines 265-281: a group whose first token is a DataToken starting with "$".
special_entry(group, ttl, origin, last) ==
    IF token_eq(group[1], <<"$","O","R","I","G","I","N">>)
    THEN IF Len(group) = 2
         THEN Step(<<>>, ttl, group[2], last, "none")
         ELSE Step(<<DNSRecordError(group, "Invalid ORIGIN entry")>>,
                   ttl, origin, last, "none")
    ELSE IF token_eq(group[1], <<"$","T","T","L">>)
    THEN IF Len(group) = 2
         THEN Step(<<>>, group[2], origin, last, "none")
         ELSE Step(<<DNSRecordError(group, "Invalid TTL entry")>>,
                   ttl, origin, last, "none")
    ELSE IF token_eq(group[1], <<"$","I","N","C","L","U","D","E">>)
    THEN Step(<<DNSRecordError(group, "$INCLUDE is unsupported")>>,
              ttl, origin, last, "none")
    ELSE Step(<<DNSRecordError(group, "Invalid special %s")>>,
              ttl, origin, last, "none")

\* qualify_owner with the separating dot inserted whatever the origin starts with.
qualify_owner_AlwaysInsertsDot(entry_owner, origin) ==
    IF ~endswith_dot(entry_owner)
    THEN entry_owner \o <<".">> \o origin.value
    ELSE entry_owner

\* Lines 351-355.
qualify_owner(entry_owner, origin) ==
    IF ~endswith_dot(entry_owner)
    THEN IF startswith_dot(origin.value)
         THEN entry_owner \o origin.value
         ELSE entry_owner \o <<".">> \o origin.value
    ELSE entry_owner

\* qualify_value with the origin appended for every type.
qualify_value_EveryType(entry_type, entry_value, origin) ==
    IF entry_value # <<>> /\ entry_value[Len(entry_value)] # "."
    THEN entry_value \o <<".">> \o origin.value
    ELSE entry_value

\* Lines 357-358, for a non-empty entry_value.
qualify_value(entry_type, entry_value, origin) ==
    IF entry_type \in {<<"M","X">>, <<"C","N","A","M","E">>}
       /\ entry_value[Len(entry_value)] # "."
    THEN entry_value \o <<".">> \o origin.value
    ELSE entry_value

\* Lines 301-321: class_pos (0-based), one to the left when there is no TTL token.
shifted_class_pos(has_ttl) == IF has_ttl THEN 2 ELSE 1

\* shifted_type_pos without the shift for an absent class token.
shifted_type_pos_NoShift(class_pos, has_class) == class_pos + 1

\* Lines 303-331: type_pos (0-based), one further to the left when there is no
\* class token.
shifted_type_pos(class_pos, has_class) == IF has_class THEN class_pos + 1 ELSE class_pos

RECURSIVE values(_)
values(toks) == IF toks = <<>> THEN <<>> ELSE <<Head(toks).value>> \o values(Tail(toks))

\* Lines 300-362: the group with its owner resolved, as a resource record.
\* Positions are the code's 0-based ones; at(pos) is group[pos].
resource_record(group, comment, ttl, origin, last) ==
    LET n == Len(group)
        at(pos) == group[pos + 1]
        error(msg) == Step(<<DNSRecordError(group, msg)>>, ttl, origin, last, "none")
        raise(e) == Step(<<>>, ttl, origin, last, e)
        ttl_pos == 1
        has_ttl == is_ttl(at(ttl_pos).value)
        entry_ttl == IF has_ttl THEN Str(at(ttl_pos).value) ELSE ttl
        class_pos == shifted_class_pos(has_ttl)
        has_class == is_namespace(at(class_pos).value)
        entry_class == IF has_class THEN at(class_pos).value ELSE <<"I","N">>
        type_pos == shifted_type_pos(class_pos, has_class)
        rdata_pos == type_pos + 1
        entry_type == at(type_pos).value
        rdata == SubSeq(group, rdata_pos + 1, n)
        entry_value == join(values(rdata))
    IN  IF ~has_value(group[1]) THEN raise("AttributeError")
        ELSE IF n <= ttl_pos THEN error("Invalid Record")
        ELSE IF ~has_value(at(ttl_pos)) THEN raise("AttributeError")
        ELSE IF n <= class_pos THEN error("Invalid Record")
        ELSE IF ~has_value(at(class_pos)) THEN raise("AttributeError")
        ELSE IF n <= type_pos THEN error("Invalid Record")
        ELSE IF ~has_value(at(type_pos)) THEN raise("AttributeError")
        ELSE IF ~is_type(entry_type) THEN error("Invalid Type")
        ELSE IF \E i \in 1..Len(rdata) : ~has_value(rdata[i]) THEN raise("AttributeError")
        ELSE IF ~truthy(entry_ttl)
             THEN error("No ttl specified and no default ttl specified")
        ELSE IF entry_type \in {<<"M","X">>, <<"C","N","A","M","E">>} /\ entry_value = <<>>
             THEN raise("IndexError")
        ELSE Step(<<DNSRecord(qualify_owner(group[1].value, origin), entry_type,
                              qualify_value(entry_type, entry_value, origin),
                              entry_ttl, entry_class, comment)>>,
                  ttl, origin, last, "none")

\* resolve_owner with an "@" owner left as it is.
resolve_owner_KeepsAt(group, comment, ttl, origin, last) ==
    IF group[1].type = "SpaceToken"
    THEN IF truthy(last)
         THEN resource_record([group EXCEPT ![1] = last], comment, ttl, origin, last)
         ELSE Step(<<DNSRecordError(group, "No preceding domain for empty domain field")>>,
                   ttl, origin, last, "none")
    ELSE resource_record(group, comment, ttl, origin, last)

\* Lines 283-298: the empty-owner and "@" substitutions, then the record.
resolve_owner(group, comment, ttl, origin, last) ==
    IF group[1].type = "SpaceToken"
    THEN IF truthy(last)
         THEN resource_record([group EXCEPT ![1] = last], comment, ttl, origin, last)
         ELSE Step(<<DNSRecordError(group, "No preceding domain for empty domain field")>>,
                   ttl, origin, last, "none")
    ELSE IF token_eq(group[1], <<"@">>)
    THEN IF truthy(origin)
         THEN resource_record([group EXCEPT ![1] = origin], comment, ttl, origin, origin)
         ELSE Step(<<DNSRecordError(group, "No ORIGIN declared for @ usage")>>,
                   ttl, origin, last, "none")
    ELSE resource_record(group, comment, ttl, origin, last)

\* One iteration of the loop of analyze (lines 249-362) on one token group.
analyze(token_group, ttl, origin, last) ==
    LET has_comment == token_group[Len(token_group)].type = "CommentToken"
        comment == IF has_comment THEN token_group[Len(token_group)].value ELSE <<>>
        group == IF has_comment
                 THEN SubSeq(token_group, 1, Len(token_group) - 1)
                 ELSE token_group
    IN  IF group = <<>>
        THEN Step(<<DNSRecordError(group, "Empty token group")>>, ttl, origin, last, "none")
        ELSE IF Len(group) < 2
        THEN Step(<<DNSRecordError(group, "Missing fields")>>, ttl, origin, last, "none")
        ELSE IF group[1].type = "DataToken" /\ is_special(group[1])
        THEN special_entry(group, ttl, origin, last)
        ELSE resolve_owner(group, comment, ttl, origin, last)

\* ---------------------------------------------------------------- inputs

\* The physical lines zone files are made of.
Lines == {
    <<"$","T","T","L"," ","5">>,                          \* $TTL 5
    <<"$","O","R","I","G","I","N"," ",".","o">>,          \* $ORIGIN .o
    <<"$","I","N","C","L","U","D","E"," ","f">>,          \* $INCLUDE f
    <<"a"," ","7"," ","I","N"," ","A"," ","1"," ",";","c">>,   \* a 7 IN A 1 ;c
    <<"a","."," ","A"," ","x","\\",";","y">>,             \* a. A x\;y
    <<"@"," ","C","H"," ","M","X"," ","m">>,              \* @ CH MX m
    <<" ","7"," ","C","N","A","M","E"," ","m",".">>,      \* (empty owner) 7 CNAME m.
    <<"b"," ","7"," ","A">>,                              \* b 7 A
    <<"b"," ","7"," ","M","X">>,                          \* b 7 MX
    <<"a"," ","("," ","7"," ","A">>,                      \* a ( 7 A
    <<"1"," ",")"," ","2"," ",";","c">>,                  \* 1 ) 2 ;c
    <<"\\">>,                                             \* a lone backslash
    <<" ">>,                                              \* a blank line
    <<"(">>,                                              \* (
    <<"a","\\">>,                                         \* a, then a backslash
    <<"a"," ","7"," ","Q"," ","1">>,                      \* a 7 Q 1
    <<";","c">>,                                          \* ;c
    <<"x">>,                                              \* x
    <<"a"," ","("," ","7"," ","A"," ",";","c">>,          \* a ( 7 A ;c
    <<"a","\\","\\","b">>,                                \* a\\b
    <<"@"," ","7"," ","A"," ","1">>}                      \* @ 7 A 1

\* The default zone names parse_zonefile is called with.
Zones == {<<>>, <<"e",".">>}

RECURSIVE Zonefiles(_)
Zonefiles(n) ==
    IF n = 0 THEN {<<>>}
    ELSE LET shorter == Zonefiles(n - 1)
         IN shorter \cup {Append(f, l) : f \in {g \in shorter : Len(g) = n - 1}, l \in Lines}

\* -------------------------------------------------------------- pipeline

\* parse_zonefile(zonefile, zone): the generators are created and nothing has run;
\* analyze's context is initialised when the first item is pulled, before any group.
Init ==
    /\ default_zone \in Zones
    /\ zonefile \in Zonefiles(MaxLines)
    /\ line_no = 0
    /\ eof = FALSE
    /\ pending_exc = "none"
    /\ tokens = <<>>
    /\ prev_token = None
    /\ reduced_tokens = <<>>
    /\ fed = <<>>
    /\ current = <<>>
    /\ in_parens = FALSE
    /\ yielded = <<>>
    /\ token_groups = <<>>
    /\ current_ttl = None
    /\ current_origin = DataToken(default_zone)
    /\ last_domain = None
    /\ out = <<>>
    /\ log = <<>>
    /\ status = "running"
    /\ exc = "none"
    /\ records = <<>>
    /\ sorted_rrs = <<>>
    /\ merged_rrsets = <<>>
    /\ merge_i = 0
    /\ pruned = <<>>
    /\ merge_status = "idle"

\* Each generator runs only when its consumer pulls: a stage takes its next input
\* only when everything downstream of it has been consumed.
Drained == tokens = <<>> /\ reduced_tokens = <<>> /\ token_groups = <<>>

\* _tokens_from_file takes the next line and lexes it.
TokensFromFile ==
    /\ status = "running" /\ ~eof /\ Drained /\ pending_exc = "none"
    /\ line_no < Len(zonefile)
    /\ LET r == tokens_from_line(zonefile[line_no + 1], 1, None, FALSE, <<>>)
       IN /\ tokens' = r.tokens
          /\ pending_exc' = r.exc
    /\ line_no' = line_no + 1
    /\ UNCHANGED <<default_zone, zonefile, eof, prev_token, reduced_tokens, fed, current,
                   in_parens, yielded, token_groups, current_ttl, current_origin,
                   last_domain, out, log, status, exc>>
    /\ UNCHANGED merge_vars

\* The exception raised in _tokens_from_file reaches the consumer of
\* parse_zonefile, through the generators between them.
LexerRaises ==
    /\ status = "running" /\ Drained /\ pending_exc # "none"
    /\ status' = "raised"
    /\ exc' = pending_exc
    /\ UNCHANGED <<default_zone, zonefile, line_no, eof, pending_exc, tokens, prev_token,
                   reduced_tokens, fed, current, in_parens, yielded, token_groups,
                   current_ttl, current_origin, last_domain, out, log>>
    /\ UNCHANGED merge_vars

\* _remove_extra_tokens takes one raw token.
RemoveExtraTokens ==
    /\ status = "running" /\ tokens # <<>>
    /\ reduced_tokens = <<>> /\ token_groups = <<>>
    /\ LET token == Head(tokens)
       IN /\ reduced_tokens' = IF remove_extra_tokens(token, prev_token)
                               THEN <<token>> ELSE <<>>
          /\ prev_token' = token
    /\ tokens' = Tail(tokens)
    /\ UNCHANGED <<default_zone, zonefile, line_no, eof, pending_exc, fed, current,
                   in_parens, yielded, token_groups, current_ttl, current_origin,
                   last_domain, out, log, status, exc>>
    /\ UNCHANGED merge_vars

\* tokenise takes one reduced token.
Tokenise ==
    /\ status = "running" /\ reduced_tokens # <<>> /\ token_groups = <<>>
    /\ LET r == tokenise(Head(reduced_tokens), current, in_parens)
       IN /\ current' = r.current
          /\ in_parens' = r.in_parens
          /\ token_groups' = r.yielded
          /\ yielded' = yielded \o r.yielded
    /\ fed' = Append(fed, Head(reduced_tokens))
    /\ reduced_tokens' = Tail(reduced_tokens)
    /\ UNCHANGED <<default_zone, zonefile, line_no, eof, pending_exc, tokens, prev_token,
                   current_ttl, current_origin, last_domain, out, log, status, exc>>
    /\ UNCHANGED merge_vars

\* The zonefile is exhausted: tokenise leaves its loop and yields what is left.
TokeniseEnd ==
    /\ status = "running" /\ ~eof /\ Drained /\ pending_exc = "none"
    /\ line_no = Len(zonefile)
    /\ eof' = TRUE
    /\ token_groups' = IF current # <<>> THEN <<current>> ELSE <<>>
    /\ yielded' = IF current # <<>> THEN Append(yielded, current) ELSE yielded
    /\ UNCHANGED <<default_zone, zonefile, line_no, pending_exc, tokens, prev_token,
                   reduced_tokens, fed, current, in_parens, current_ttl, current_origin,
                   last_domain, out, log, status, exc>>
    /\ UNCHANGED merge_vars

\* analyze takes one token group.
Analyze ==
    /\ status = "running" /\ token_groups # <<>>
    /\ LET group == Head(token_groups)
           r == analyze(group, current_ttl, current_origin, last_domain)
       IN /\ current_ttl' = r.current_ttl
          /\ current_origin' = r.current_origin
          /\ last_domain' = r.last_domain
          /\ out' = out \o r.items
          /\ log' = Append(log, [group |-> group, items |-> r.items, exc |-> r.exc,
                                 current_ttl |-> current_ttl,
                                 current_origin |-> current_origin,
                                 last_domain |-> last_domain])
          /\ status' = IF r.exc = "none" THEN "running" ELSE "raised"
          /\ exc' = r.exc
    /\ token_groups' = Tail(token_groups)
    /\ UNCHANGED <<default_zone, zonefile, line_no, eof, pending_exc, tokens, prev_token,
                   reduced_tokens, fed, current, in_parens, yielded>>
    /\ UNCHANGED merge_vars

\* analyze leaves its loop: the consumer gets StopIteration.
StopIteration ==
    /\ status = "running" /\ eof /\ token_groups = <<>>
    /\ status' = "done"
    /\ UNCHANGED <<default_zone, zonefile, line_no, eof, pending_exc, tokens, prev_token,
                   reduced_tokens, fed, current, in_parens, yielded, token_groups,
                   current_ttl, current_origin, last_domain, out, log, exc>>
    /\ UNCHANGED merge_vars

Next ==
    \/ TokensFromFile
    \/ LexerRaises
    \/ RemoveExtraTokens
    \/ Tokenise
    \/ TokeniseEnd
    \/ Analyze
    \/ StopIteration

Spec == Init /\ [][Next]_vars

\* ------------------------------------------------- merge_records: values

\* The number of rrsets in the list merge_records is called with.
MaxRRsets == 3

\* The characters of the names, types and contents below, in increasing code
\* point order: Python orders str by code point.
CodePoints == <<"1", "2", "3", "4", "5", ":", "A", "M", "X", "a", "b", "x", "y">>

ord(c) == CHOOSE k \in 1..Len(CodePoints) : CodePoints[k] = c

\* s < t for two str.
RECURSIVE str_lt(_, _)
str_lt(s, t) ==
    IF t = <<>> THEN FALSE
    ELSE IF s = <<>> THEN TRUE
    ELSE IF s[1] = t[1] THEN str_lt(Tail(s), Tail(t))
    ELSE ord(s[1]) < ord(t[1])

PDNSComment(content, account) == [content |-> content, account |-> account]

PDNSRecord(content, disabled) == [content |-> content, disabled |-> disabled]

PDNSResourceRecord(name, type, ttl, changetype, recs, comments) ==
    [name |-> name, type |-> type, ttl |-> ttl, changetype |-> changetype,
     records |-> recs, comments |-> comments]

\* PDNSRecord.__eq__
PDNSRecord_eq(self, other) == self.content = other.content

\* PDNSResourceRecord.__eq__
PDNSResourceRecord_eq(self, other) == self.name = other.name /\ self.type = other.type

\* sorted() is stable: index j goes behind every index whose key is not greater.
RECURSIVE insort(_, _, _)
insort(idx, j, sort_keys) ==
    IF idx = <<>> THEN <<j>>
    ELSE IF str_lt(sort_keys[j], sort_keys[idx[1]]) THEN <<j>> \o idx
    ELSE <<idx[1]>> \o insort(Tail(idx), j, sort_keys)

\* sorted(range(n), key=lambda r: sort_keys[r]), 1-based.
RECURSIVE sorted_idx(_, _)
sorted_idx(sort_keys, n) ==
    IF n = 0 THEN <<>> ELSE insort(sorted_idx(sort_keys, n - 1), n, sort_keys)

\* [x for i, x in enumerate(xs) if i not in set(to_del)], indexes 1-based.
RECURSIVE without(_, _, _)
without(xs, to_del, n) ==
    IF n = 0 THEN <<>>
    ELSE without(xs, to_del, n - 1) \o (IF n \in to_del THEN <<>> ELSE <<xs[n]>>)

\* Lines 62-82: the rrset self after verify_and_prune_records.
verify_and_prune_records(self) ==
    IF Len(self.records) <= 1 THEN self
    ELSE
      LET n == Len(self.records)
          sorted_records_idx ==
              sorted_idx([r \in 1..n |-> self.records[r].content], n)
          dup == {p \in 2..n : PDNSRecord_eq(self.records[sorted_records_idx[p]],
                                             self.records[sorted_records_idx[p - 1]])}
          to_del_idx(p) == IF self.records[sorted_records_idx[p]].disabled
                           THEN sorted_records_idx[p]
                           ELSE sorted_records_idx[p - 1]
          to_del == {to_del_idx(p) : p \in dup}
      IN  [self EXCEPT !.records = without(self.records, to_del, n),
                       !.comments = without(self.comments, to_del, Len(self.comments))]

\* sorted_by_key with the list left in the order it came in.
sorted_by_key_Unsorted(rrs) == rrs

\* Line 147: sorted(records, key=lambda rr: f"{rr.name}:{rr.type}").
sorted_by_key(rrs) ==
    LET n == Len(rrs)
        idx == sorted_idx([j \in 1..n |-> rrs[j].name \o <<":">> \o rrs[j].type], n)
    IN  [k \in 1..n |-> rrs[idx[k]]]

\* ------------------------------------------------ merge_records: process

\* The names, types and contents of the rrsets parse_records builds.
RRNames == {<<"a">>, <<"b">>}

RRTypes == {<<"A">>, <<"M","X">>}

RRContents == {<<"x">>, <<"y">>}

\* parse_records, lines 120-127: the rrset built from the j-th record parsed, its
\* comment told apart from the others by the text j.
parsed_rrset(j, name, type, content, active) ==
    PDNSResourceRecord(name, type, <<"5">>, "REPLACE",
                       <<PDNSRecord(content, ~active)>>,
                       <<PDNSComment(<<CodePoints[j]>>, "admin")>>)

\* The list of rrsets parse_records builds from k records parsed, the j-th with
\* the name, type, content and activity f[j].
parsed_records(f, k) ==
    [j \in 1..k |-> parsed_rrset(j, f[j][1], f[j][2], f[j][3], f[j][4])]

\* merge_records(records) has been called and nothing of it has run; the parse
\* that produced the records is over.
MergeInit ==
    /\ \E k \in 0..MaxRRsets :
          \E f \in [1..k -> RRNames \X RRTypes \X RRContents \X BOOLEAN] :
             records = parsed_records(f, k)
    /\ sorted_rrs = <<>>
    /\ merged_rrsets = <<>>
    /\ merge_i = 0
    /\ pruned = <<>>
    /\ merge_status = "called"
    /\ default_zone = <<>>
    /\ zonefile = <<>>
    /\ line_no = 0
    /\ eof = TRUE
    /\ pending_exc = "none"
    /\ tokens = <<>>
    /\ prev_token = None
    /\ reduced_tokens = <<>>
    /\ fed = <<>>
    /\ current = <<>>
    /\ in_parens = FALSE
    /\ yielded = <<>>
    /\ token_groups = <<>>
    /\ current_ttl = None
    /\ current_origin = DataToken(default_zone)
    /\ last_domain = None
    /\ out = <<>>
    /\ log = <<>>
    /\ status = "done"
    /\ exc = "none"

\* The last rrset of merged_rrsets after verify_and_prune_records on it.
prune_last(rrsets) ==
    [rrsets EXCEPT ![Len(rrsets)] = verify_and_prune_records(rrsets[Len(rrsets)])]

\* What the call of verify_and_prune_records on the last rrset was given and left.
prune_entry(rrsets) ==
    [before |-> rrsets[Len(rrsets)], after |-> verify_and_prune_records(rrsets[Len(rrsets)])]

\* Lines 147-148 on a non-empty list.
SortRecords ==
    /\ merge_status = "called" /\ records # <<>>
    /\ sorted_rrs' = sorted_by_key(records)
    /\ merged_rrsets' = <<sorted_rrs'[1]>>
    /\ merge_i' = 1
    /\ merge_status' = "merging"
    /\ UNCHANGED <<records, pruned>>
    /\ UNCHANGED parser_vars

\* Line 148 on an empty list: sorted_rrs[0] raises IndexError.
MergeRaises ==
    /\ merge_status = "called" /\ records = <<>>
    /\ merge_status' = "raised"
    /\ UNCHANGED <<records, sorted_rrs, merged_rrsets, merge_i, pruned>>
    /\ UNCHANGED parser_vars

\* Lines 152-154: the rrset taken equals the last merged one and is merged into it.
MergeSame ==
    /\ merge_status = "merging" /\ merge_i < Len(sorted_rrs)
    /\ PDNSResourceRecord_eq(sorted_rrs[merge_i + 1], merged_rrsets[Len(merged_rrsets)])
    /\ merged_rrsets' =
         [merged_rrsets EXCEPT ![Len(merged_rrsets)] =
             [@ EXCEPT !.records = @ \o sorted_rrs[merge_i + 1].records,
                       !.comments = @ \o sorted_rrs[merge_i + 1].comments]]
    /\ merge_i' = merge_i + 1
    /\ UNCHANGED <<records, sorted_rrs, pruned, merge_status>>
    /\ UNCHANGED parser_vars

\* Lines 155-158: the rrset taken differs; the last merged one is pruned and the
\* rrset taken is appended.
MergeOther ==
    /\ merge_status = "merging" /\ merge_i < Len(sorted_rrs)
    /\ ~PDNSResourceRecord_eq(sorted_rrs[merge_i + 1], merged_rrsets[Len(merged_rrsets)])
    /\ merged_rrsets' = Append(prune_last(merged_rrsets), sorted_rrs[merge_i + 1])
    /\ pruned' = Append(pruned, prune_entry(merged_rrsets))
    /\ merge_i' = merge_i + 1
    /\ UNCHANGED <<records, sorted_rrs, merge_status>>
    /\ UNCHANGED parser_vars

\* Lines 161-163: the loop is over; the last merged rrset is pruned and the list
\* returned.
MergeReturn ==
    /\ merge_status = "merging" /\ merge_i = Len(sorted_rrs)
    /\ merged_rrsets' = prune_last(merged_rrsets)
    /\ pruned' = Append(pruned, prune_entry(merged_rrsets))
    /\ merge_status' = "returned"
    /\ UNCHANGED <<records, sorted_rrs, merge_i>>
    /\ UNCHANGED parser_vars

MergeNext ==
    \/ SortRecords
    \/ MergeRaises
    \/ MergeSame
    \/ MergeOther
    \/ MergeReturn

MergeSpec == MergeInit /\ [][MergeNext]_vars

\* ------------------------------------------------- reading the record log

\* A token group without its trailing comment.
WithoutComment(g) ==
    IF g # <<>> /\ g[Len(g)].type = "CommentToken" THEN SubSeq(g, 1, Len(g) - 1) ELSE g

\* A directive group: its first token is a Data token that starts with "$".
IsDirective(g) == g # <<>> /\ g[1].type = "DataToken" /\ g[1].value # <<>> /\ g[1].value[1] = "$"

\* A valid two-token directive with the given keyword.
IsValidDirective(g, keyword) ==
    /\ Len(WithoutComment(g)) = 2
    /\ g[1].type = "DataToken" /\ g[1].value = keyword

KwOrigin == <<"$","O","R","I","G","I","N">>

KwTTL == <<"$","T","T","L">>

\* The valid directives with the given keyword among the groups before group i.
DirectivesBefore(i, keyword) == {j \in 1..(i - 1) : IsValidDirective(log[j].group, keyword)}

LastOf(S) == CHOOSE j \in S : \A k \in S : k <= j

\* The text of the origin in effect at group i: the value of the most recent valid
\* $ORIGIN before it, the default zone if there is none.
OriginAt(i) ==
    IF DirectivesBefore(i, KwOrigin) = {} THEN default_zone
    ELSE log[LastOf(DirectivesBefore(i, KwOrigin))].group[2].value

\* The text of the default TTL in effect at group i, when HasDefaultTTL(i).
HasDefaultTTL(i) == DirectivesBefore(i, KwTTL) # {}

DefaultTTLAt(i) == log[LastOf(DirectivesBefore(i, KwTTL))].group[2].value

YieldsRecord(e) == Len(e.items) = 1 /\ e.items[1].kind = "DNSRecord"

YieldsError(e, msg) ==
    Len(e.items) = 1 /\ e.items[1].kind = "DNSRecordError" /\ e.items[1].error = msg

\* An explicit owner: a Data token that is no directive.
ExplicitOwner(g) == g # <<>> /\ g[1].type = "DataToken" /\ ~IsDirective(g)

\* ----------------------------------------------------------------- claims

\* C1: for every input in which the lexer never reads a backslash while no Data
\* token is open, pulling the output of parse_zonefile to its end never raises:
\* the only exception that ever ends a parse is the lexer's ValueError for such a
\* backslash.
C1_OnlyBareBackslashRaises == status = "raised" => exc = "ValueError"

\* C2: a group whose first token is Whitespace, immediately after a group with an
\* explicit owner and rdata for which a DnsRecord was yielded, never yields the error
\* NoPrecedingDomain, and the record it yields has the same owner as that record.
C2_EmptyOwnerContinuesPreviousOwner ==
    \A i \in 1..(Len(log) - 1) :
        ( /\ ExplicitOwner(log[i].group)
          /\ YieldsRecord(log[i]) /\ log[i].items[1].value # <<>>
          /\ log[i + 1].group[1].type = "SpaceToken" )
        => /\ ~YieldsError(log[i + 1], "No preceding domain for empty domain field")
           /\ YieldsRecord(log[i + 1])
                => log[i + 1].items[1].domain = log[i].items[1].domain

C4_AtOwnerWithoutOriginIsNoRecord ==
    \A i \in 1..Len(log) :
        ( /\ default_zone = <<>>
          /\ DirectivesBefore(i, KwOrigin) = {}
          /\ token_eq(log[i].group[1], <<"@">>) )
        => ~YieldsRecord(log[i])

\* The groups "owner type", "owner TTL type", "owner class type" and
\* "owner TTL class type": no token follows the type token.
EndsWithType(g) ==
    /\ ExplicitOwner(g)
    /\ \A k \in 1..Len(g) : g[k].type = "DataToken"
    /\ \/ Len(g) = 2 /\ is_type(g[2].value)
       \/ Len(g) = 3 /\ (is_ttl(g[2].value) \/ is_namespace(g[2].value)) /\ is_type(g[3].value)
       \/ Len(g) = 4 /\ is_ttl(g[2].value) /\ is_namespace(g[3].value) /\ is_type(g[4].value)

\* C5: rdata is mandatory: a group in which no token follows the type token
\* yields the error InvalidRecordStructure.
C5_RdataIsMandatory ==
    \A i \in 1..Len(log) :
        EndsWithType(WithoutComment(log[i].group)) => YieldsError(log[i], "Invalid Record")

\* The TTL pattern: one or more digits, optionally followed by one unit letter.
TTLToken(v) ==
    /\ v # <<>> /\ v[1] \in Digit
    /\ \A k \in 1..(Len(v) - 1) : v[k] \in Digit
    /\ v[Len(v)] \in Digit \cup Letter

ClassNames == {<<"I","N">>, <<"C","H">>, <<"H","S">>}

\* The index of the type token in "owner [TTL] [class] type rdata..." (1-based).
TypeIndex(has_t, has_c) == 2 + (IF has_t THEN 1 ELSE 0) + (IF has_c THEN 1 ELSE 0)

\* g is "owner [TTL] [class] type rdata...": an explicit owner, a TTL token iff
\* has_t, a class token iff has_c, a known type, and at least one rdata token.
RecordShape(g, has_t, has_c) ==
    /\ ExplicitOwner(g)
    /\ \A k \in 1..Len(g) : g[k].type = "DataToken"
    /\ Len(g) > TypeIndex(has_t, has_c)
    /\ has_t => TTLToken(g[2].value)
    /\ has_c => g[TypeIndex(has_t, has_c) - 1].value \in ClassNames
    /\ g[TypeIndex(has_t, has_c)].value \in RecordTypes

RdataText(g, has_t, has_c) == join(values(SubSeq(g, TypeIndex(has_t, has_c) + 1, Len(g))))

\* The value of the record for rdata text v of the given type under the origin:
\* MX and CNAME text not ending in "." gets "." and the origin appended, and
\* every "\;" is rewritten to ";".
RecordValue(type, v, origin) ==
    replace_escaped_semicolon(
        IF type \in {<<"M","X">>, <<"C","N","A","M","E">>} /\ v[Len(v)] # "."
        THEN v \o <<".">> \o origin ELSE v)

\* The record yielded for group i has the type, TTL and class of the shape.
FieldsOfShape(i, g, has_t, has_c) ==
    /\ YieldsRecord(log[i])
    /\ log[i].items[1].type = g[TypeIndex(has_t, has_c)].value
    /\ log[i].items[1].ttl.value = IF has_t THEN g[2].value ELSE DefaultTTLAt(i)
    /\ log[i].items[1].record_class =
          IF has_c THEN g[TypeIndex(has_t, has_c) - 1].value ELSE <<"I","N">>

\* C6 as claimed: in all four present/absent combinations of TTL and class the
\* record has the type, TTL and class of the group, and its value is exactly the
\* tokens after the type joined by single spaces.
C6_ValueIsTheJoinedRdata ==
    \A i \in 1..Len(log) : \A has_t, has_c \in BOOLEAN :
        LET g == WithoutComment(log[i].group)
        IN (RecordShape(g, has_t, has_c) /\ (has_t \/ HasDefaultTTL(i)))
           => /\ FieldsOfShape(i, g, has_t, has_c)
              /\ log[i].items[1].value = RdataText(g, has_t, has_c)

\* C6 as amended: in all four present/absent combinations of TTL and class the
\* record has the type, TTL and class of the group, and its value is the tokens
\* after the type joined by single spaces, with "." and the origin appended for
\* MX and CNAME text not ending in ".", and with every "\;" rewritten to ";".
C6_PositionalShifting ==
    \A i \in 1..Len(log) : \A has_t, has_c \in BOOLEAN :
        LET g == WithoutComment(log[i].group)
        IN (RecordShape(g, has_t, has_c) /\ (has_t \/ HasDefaultTTL(i)))
           => /\ FieldsOfShape(i, g, has_t, has_c)
              /\ log[i].items[1].value =
                    RecordValue(g[TypeIndex(has_t, has_c)].value,
                                RdataText(g, has_t, has_c), OriginAt(i))

\* "owner type rdata" under a default TTL has yielded its record.
C6_Witness ==
    \E i \in 1..Len(log) :
        /\ RecordShape(WithoutComment(log[i].group), FALSE, FALSE)
        /\ HasDefaultTTL(i)
        /\ YieldsRecord(log[i])
        /\ log[i].items[1].type = <<"A">>
        /\ log[i].items[1].ttl.value = <<"5">>

\* The four combinations, each reached (not a claim: the cases C6 ranges over).
C6_Cases(has_t, has_c) ==
    \E i \in 1..Len(log) :
        /\ RecordShape(WithoutComment(log[i].group), has_t, has_c)
        /\ (has_t \/ HasDefaultTTL(i))
        /\ log[i].items # <<>>

IsData(t) == t.type = "DataToken"

RECURSIVE Flatten(_)
Flatten(gs) == IF gs = <<>> THEN <<>> ELSE Head(gs) \o Flatten(Tail(gs))

\* The tokens s end inside parentheses: an OpenParen with no CloseParen after it.
InsideParens(s) ==
    \E a \in 1..Len(s) :
        /\ s[a].type = "OpenParenthesisToken"
        /\ \A b \in (a + 1)..Len(s) : s[b].type # "CloseParenthesisToken"

\* The Data tokens the Grouper has taken are the Data tokens of the groups it has
\* yielded followed by those it holds, in the same order.
DataTokensKept ==
    SelectSeq(Flatten(yielded) \o (IF eof THEN <<>> ELSE current), IsData)
        = SelectSeq(fed, IsData)

\* A step of the Grouper that closes a group before the end of the input takes
\* an EndOfLine outside parentheses.
ClosesOutsideParens ==
    (yielded' # yielded /\ ~eof')
        => /\ Head(reduced_tokens).type = "EOLToken"
           /\ ~InsideParens(fed)

\* C7: from an OpenParen until the next CloseParen the Grouper never closes a
\* group on an EndOfLine, and no Data token is lost or reordered: the Data tokens
\* before "(", between "(" and ")" and after ")" come out in one group, in order.
C7_ParenthesisContinuation == []DataTokensKept /\ [][ClosesOutsideParens]_vars

\* One group holds Data tokens from before an EndOfLine taken inside parentheses
\* and from after the CloseParen.
C7_Witness ==
    /\ Len(yielded) = 1
    /\ \E a, b, c, d \in 1..Len(fed) :
         /\ a < b /\ b < c /\ c < d
         /\ fed[a].type = "OpenParenthesisToken"
         /\ fed[b].type = "EOLToken"
         /\ fed[c].type = "CloseParenthesisToken"
         /\ fed[d].type = "DataToken"
         /\ \E k \in 1..(a - 1) : fed[k].type = "DataToken"
    /\ SelectSeq(yielded[1], IsData) = SelectSeq(fed, IsData)

\* The first backslash of the line is read with no Data token open: it comes
\* first on the line or right after a blank or a parenthesis, outside a comment.
BareBackslash(line) ==
    \E k \in 1..Len(line) :
        /\ line[k] = "\\"
        /\ \A j \in 1..(k - 1) : line[j] \notin {"\\", ";"}
        /\ k = 1 \/ line[k - 1] \in {" ", "\t", "(", ")", "\r", "\n"}

\* Once the lexer has taken a line with such a backslash it takes no further
\* line, the parse never ends normally, and the lexer's exception is pending or,
\* unless the analyser raised first, is the one the parse ended with.
FatalAtBareBackslash ==
    \A k \in 1..line_no :
        BareBackslash(zonefile[k])
        => /\ line_no = k
           /\ status # "done"
           /\ pending_exc = "ValueError"
           /\ (status = "raised" /\ (log = <<>> \/ log[Len(log)].exc = "none"))
                => exc = "ValueError"

\* After the failure nothing more is yielded.
NothingAfterRaise == status = "raised" => (out' = out /\ status' = "raised")

\* C8: a backslash read while no Data token is open is fatal: the parse fails
\* there and the output produces no further item, also for later lines.
C8_BareBackslashIsFatal == []FatalAtBareBackslash /\ [][NothingAfterRaise]_vars

\* The parse has failed on a bare backslash with a later line still unread.
C8_Witness ==
    /\ status = "raised" /\ exc = "ValueError"
    /\ line_no < Len(zonefile)
    /\ BareBackslash(zonefile[line_no])

\* The owner text of group i after the empty-owner and "@" substitutions.
OwnerText(i) ==
    IF log[i].group[1].type = "SpaceToken" THEN log[i].last_domain.value
    ELSE IF token_eq(log[i].group[1], <<"@">>) THEN OriginAt(i)
    ELSE log[i].group[1].value

\* C9: the domain of a record is its owner unchanged when the owner ends in ".",
\* owner + origin when the origin in effect starts with ".", and
\* owner + "." + origin otherwise.
C9_OwnerQualification ==
    \A i \in 1..Len(log) :
        YieldsRecord(log[i])
        => log[i].items[1].domain =
              IF OwnerText(i) # <<>> /\ OwnerText(i)[Len(OwnerText(i))] = "."
              THEN OwnerText(i)
              ELSE IF OriginAt(i) # <<>> /\ OriginAt(i)[1] = "."
              THEN OwnerText(i) \o OriginAt(i)
              ELSE OwnerText(i) \o <<".">> \o OriginAt(i)

\* An owner not ending in "." has been qualified with an origin, set by $ORIGIN,
\* that starts with ".".
C9_Witness ==
    \E i \in 1..Len(log) :
        /\ YieldsRecord(log[i])
        /\ DirectivesBefore(i, KwOrigin) # {}
        /\ OriginAt(i) = <<".","o">>
        /\ log[i].group[1] = DataToken(<<"a">>)
        /\ log[i].items[1].domain = <<"a",".","o">>

\* C10: a valid record group without a TTL token yields NoTTLSpecified iff no
\* valid $TTL directive precedes it, and otherwise a record with the TTL of the
\* most recent one; an explicit TTL token is the record's TTL; and the default
\* TTL is only ever the value of the most recent valid $TTL directive.
C10_DefaultTTLOrdering ==
    /\ \A i \in 1..Len(log) : \A has_c \in BOOLEAN :
         LET g == WithoutComment(log[i].group)
         IN /\ RecordShape(g, FALSE, has_c)
                => /\ YieldsError(log[i], "No ttl specified and no default ttl specified")
                      <=> ~HasDefaultTTL(i)
                   /\ HasDefaultTTL(i)
                      => YieldsRecord(log[i]) /\ log[i].items[1].ttl.value = DefaultTTLAt(i)
            /\ RecordShape(g, TRUE, has_c)
                => YieldsRecord(log[i]) /\ log[i].items[1].ttl.value = g[2].value
    /\ IF HasDefaultTTL(Len(log) + 1)
       THEN truthy(current_ttl) /\ current_ttl.value = DefaultTTLAt(Len(log) + 1)
       ELSE current_ttl = None

\* A group without a TTL token has yielded a record with the TTL of the $TTL
\* directive before it.
C10_Witness ==
    \E i \in 1..Len(log) : \E has_c \in BOOLEAN :
        /\ RecordShape(WithoutComment(log[i].group), FALSE, has_c)
        /\ HasDefaultTTL(i)
        /\ YieldsRecord(log[i])
        /\ log[i].items[1].ttl.value = <<"5">>

\* The rrset at index a of the returned list holds, at one index k, the record and
\* the comment of the input rrset j.
HoldsPair(a, j) ==
    \E k \in 1..Len(merged_rrsets[a].records) :
        /\ k <= Len(merged_rrsets[a].comments)
        /\ merged_rrsets[a].records[k] = records[j].records[1]
        /\ merged_rrsets[a].comments[k] = records[j].comments[1]

SameNameAndType(rr1, rr2) == rr1.name = rr2.name /\ rr1.type = rr2.type

\* C11: when merge_records returns, no two rrsets of the returned list have the
\* same (name, type); every input rrset has gone into the returned rrset of its
\* name and type (its record is there with its comment, or a record of the same
\* content is); and in every returned rrset the records and the comments have the
\* same length, the comment at index k being the comment that came with the
\* record at index k.
C11_MergedByNameAndType ==
    merge_status = "returned" =>
      /\ \A a, b \in 1..Len(merged_rrsets) :
            a # b => ~SameNameAndType(merged_rrsets[a], merged_rrsets[b])
      /\ \A j \in 1..Len(records) :
            \E a \in 1..Len(merged_rrsets) :
               /\ SameNameAndType(merged_rrsets[a], records[j])
               /\ \/ HoldsPair(a, j)
                  \/ \E k \in 1..Len(merged_rrsets[a].records) :
                        merged_rrsets[a].records[k].content = records[j].records[1].content
      /\ \A a \in 1..Len(merged_rrsets) :
            /\ Len(merged_rrsets[a].records) = Len(merged_rrsets[a].comments)
            /\ \A k \in 1..Len(merged_rrsets[a].records) :
                  \E j \in 1..Len(records) :
                     /\ SameNameAndType(records[j], merged_rrsets[a])
                     /\ merged_rrsets[a].records[k] = records[j].records[1]
                     /\ merged_rrsets[a].comments[k] = records[j].comments[1]

\* merge_records has returned a list of two rrsets, one of them merged from two
\* input rrsets that were not next to each other in the input.
C11_Witness ==
    /\ merge_status = "returned"
    /\ Len(records) = 3
    /\ SameNameAndType(records[1], records[3])
    /\ ~SameNameAndType(records[1], records[2])
    /\ Len(merged_rrsets) = 2
    /\ \E a \in 1..2 : Len(merged_rrsets[a].records) = 2

\* The Grouper has just consumed the EndOfLine of a whitespace-only line, outside
\* parentheses: the last tokens fed are EndOfLine (or nothing), Whitespace, EndOfLine.
AfterBlankLine ==
    /\ Len(fed) >= 2
    /\ fed[Len(fed)].type = "EOLToken"
    /\ fed[Len(fed) - 1].type = "SpaceToken"
    /\ Len(fed) = 2 \/ fed[Len(fed) - 2].type = "EOLToken"
    /\ ~in_parens

\* C12: a whitespace-only line is discarded by the Grouper: after its EndOfLine
\* the accumulator is empty, so that the group of the next line does not start
\* with the Whitespace token of the blank line.
C12_BlankLineIsDiscarded == AfterBlankLine => current = <<>>

\* C13: in every group the Grouper has yielded, a Comment token is the last token
\* of the group, so that the Analyzer, which takes off a trailing Comment only,
\* never joins comment text into a record's value.
C13_CommentOnlyLast ==
    \A n \in 1..Len(yielded) :
        \A k \in 1..(Len(yielded[n]) - 1) : yielded[n][k].type # "CommentToken"

\* The ParseContext before group i of the log, and after it.
ContextBefore(i) == <<log[i].current_ttl, log[i].current_origin, log[i].last_domain>>

ContextAfter(i) ==
    IF i < Len(log) THEN ContextBefore(i + 1)
    ELSE <<current_ttl, current_origin, last_domain>>

\* C14: every group for which the Analyzer yields a DnsRecordError leaves
\* current_ttl, current_origin and last_domain as they were before the group.
C14_ErrorGroupsLeaveContext ==
    \A i \in 1..Len(log) :
        (Len(log[i].items) = 1 /\ log[i].items[1].kind = "DNSRecordError")
        => ContextAfter(i) = ContextBefore(i)

\* The tokens of a line when every backslash read with a Data token open takes
\* itself and the character after it into the token, the character after it is
\* not classified, and reading goes on behind it.
RECURSIVE EscapedPairTokens(_, _, _, _)
EscapedPairTokens(line, i, tok, acc) ==
    LET open == tok.type = "DataToken"
        closed == acc \o (IF open THEN <<tok>> ELSE <<>>)
    IN  IF i > Len(line) THEN closed \o <<EOLToken>>
        ELSE IF line[i] = "\\" /\ open /\ i < Len(line)
        THEN EscapedPairTokens(line, i + 2,
                               DataToken(tok.value \o <<line[i], line[i + 1]>>), acc)
        ELSE LET t == char_to_token(line[i])
             IN  IF t.type = "DataToken"
                 THEN EscapedPairTokens(line, i + 1,
                         IF open THEN DataToken(tok.value \o <<line[i]>>) ELSE t, acc)
                 ELSE IF t.type = "CommentToken"
                 THEN closed \o <<CommentToken(strip(SubSeq(line, i + 1, Len(line)))),
                                  EOLToken>>
                 ELSE EscapedPairTokens(line, i + 1, None, Append(closed, t))

IsSuffix(s, t) == Len(s) <= Len(t) /\ s = SubSeq(t, Len(t) - Len(s) + 1, Len(t))

\* C15: for a line the lexer has read to its end without raising, the raw tokens
\* are those of escaped-pair lexing: a backslash read while a Data token is open
\* puts itself and the next character into the token, the next character is not
\* classified, and lexing goes on with the character after it. (The raw tokens
\* not yet taken by the normaliser are the last ones of the line.)
C15_EscapedPairLexing ==
    (line_no >= 1 /\ pending_exc = "none")
    => IsSuffix(tokens, EscapedPairTokens(zonefile[line_no], 1, None, <<>>))

\* Group i has the owner "@" and a non-empty origin is in effect.
AtOwner(i) == token_eq(log[i].group[1], <<"@">>) /\ OriginAt(i) # <<>>

\* C16 as claimed: for every origin value, the record of a group whose owner is "@"
\* has the origin's text as its domain.
C16_AtOwnerIsTheOrigin ==
    \A i \in 1..Len(log) :
        (AtOwner(i) /\ YieldsRecord(log[i])) => log[i].items[1].domain = OriginAt(i)

\* C16: the record of a group whose owner is "@", with a non-empty origin, has as
\* its domain the origin's text when that text ends in "."; an origin that does
\* not end in "." is qualified like any other owner: the domain is origin + origin
\* when the origin starts with ".", and origin + "." + origin otherwise.
C16_AtOwnerIsTheQualifiedOrigin ==
    \A i \in 1..Len(log) :
        (AtOwner(i) /\ YieldsRecord(log[i]))
        => LET o == OriginAt(i)
           IN  log[i].items[1].domain =
                  IF o[Len(o)] = "." THEN o
                  ELSE IF o[1] = "." THEN o \o o
                  ELSE o \o <<".">> \o o

\* A record has come from an "@" owner under the origin set by "$ORIGIN .o".
C16_Witness ==
    \E i \in 1..Len(log) :
        /\ AtOwner(i) /\ YieldsRecord(log[i])
        /\ OriginAt(i) = <<".","o">>
        /\ log[i].items[1].domain = <<".","o",".","o">>

\* The index of the type token of a group: the first token behind the owner whose
\* text is a record type (a TTL or a class before it is never one).
TypeTokenIndex(g) ==
    CHOOSE p \in 2..Len(g) :
        /\ g[p].value \in RecordTypes
        /\ \A q \in 2..(p - 1) : g[q].value \notin RecordTypes

\* The tokens behind the type token, joined by single spaces.
JoinedRdata(g) == join(values(SubSeq(g, TypeTokenIndex(g) + 1, Len(g))))

MXorCNAME == {<<"M","X">>, <<"C","N","A","M","E">>}

\* C17: the value of a record of type MX or CNAME whose joined rdata does not end
\* in "." is rdata + "." + origin; the value of an MX or CNAME record whose rdata
\* ends in ".", and of a record of any other type, is the joined rdata; in both
\* cases with every "\;" rewritten to ";".
C17_ValueQualification ==
    \A i \in 1..Len(log) :
        YieldsRecord(log[i])
        => LET g == WithoutComment(log[i].group)
               rdata == JoinedRdata(g)
               type == log[i].items[1].type
           IN  /\ type = g[TypeTokenIndex(g)].value
               /\ log[i].items[1].value =
                     IF type \in MXorCNAME /\ rdata # <<>> /\ rdata[Len(rdata)] # "."
                     THEN replace_escaped_semicolon(rdata \o <<".">> \o OriginAt(i))
                     ELSE replace_escaped_semicolon(rdata)

\* An MX record has had its rdata "m" qualified with the default zone "e.".
C17_Witness ==
    \E i \in 1..Len(log) :
        /\ YieldsRecord(log[i])
        /\ log[i].items[1].type = <<"M","X">>
        /\ JoinedRdata(WithoutComment(log[i].group)) = <<"m">>
        /\ OriginAt(i) = <<"e",".">>
        /\ log[i].items[1].value = <<"m",".","e",".">>

\* C18: every group the Grouper has yielded is non-empty and holds no EndOfLine,
\* OpenParen or CloseParen token: each of its tokens is a Data token, a Comment
\* token, or a Whitespace token at the first index, so every token the Analyzer
\* reads the text of has one.
C18_GroupsHoldTextTokensOnly ==
    \A n \in 1..Len(yielded) :
        /\ yielded[n] # <<>>
        /\ \A k \in 1..Len(yielded[n]) :
              \/ yielded[n][k].type \in {"DataToken", "CommentToken"}
              \/ yielded[n][k].type = "SpaceToken" /\ k = 1

\* The indexes of the records of content c in a list of records.
WithContent(recs, c) == {k \in 1..Len(recs) : recs[k].content = c}

====
